---- MODULE Spec2Model ----
(***************************************************************************)
(* Job-application tracker: the applications table (src/app.py), the       *)
(* status normalizer normalize_status, the reconciler upsert_application,  *)
(* the web handlers that add, edit, delete and list records, and the       *)
(* crawler loop of src/crawler.py that feeds scraped rows to the           *)
(* reconciler, and the command-line resolution of the crawler's main.      *)
(*                                                                         *)
(* A Python str is a sequence of one-character strings, so that strip,     *)
(* lower, title and the substring test are computed character by           *)
(* character.  Python's None is the one-element sequence None below, which *)
(* no text equals.  Values the model never looks into (calendar dates)     *)
(* are one-element sequences as well.                                      *)
(***************************************************************************)
EXTENDS Integers, Sequences, FiniteSets, TLC

VARIABLES
    db,        \* committed rows of table applications (a set of records)
    seq,       \* sqlite_sequence.seq of the AUTOINCREMENT key
    appUp,     \* create_app() has run and the web handlers are served
    manual,    \* manual add and edit requests that wrote a record so far
    crawls,    \* crawl_and_sync runs started so far
    cpc,       \* the crawler's position: "idle", "loop", "upsert"
    rowsLeft,  \* rows of the scraped table the for loop has not visited yet
    imported,  \* crawl_and_sync's local counter `imported`
    cand,      \* upsert_application's local `normalized` (None outside a call)
    existing,  \* upsert_application's local `existing` id (0: no row found)
    stmt,      \* index of the next database statement of the call in progress
    txn,       \* the crawler connection's uncommitted image (NoTxn: none open)
    seen,      \* rows a concurrent GET /applications got for the upsert's target id
    pre,       \* history: rows with the target id when the call's first write began
    present,   \* history: rows of this crawl whose three required cells had text
    skipped,   \* history: rows of this crawl whose iteration ended at `continue`
    lastUpsert, \* history: the id the last finished upsert wrote and whether it inserted
    assigned,  \* history: every id an INSERT has ever produced
    call,      \* which function the normalizer harness applied last
    raw,       \* the raw status text handed to it
    result,    \* what it returned
    argv,      \* crawler.py's command line: per option its value, NotGiven if absent
    args,      \* main's argparse namespace `args`
    mpc,       \* main's position: "none", "start", "parsed", "resolved", "called"
    received   \* the keyword arguments main hands to crawl_and_sync

vars == <<db, seq, appUp, manual, crawls, cpc, rowsLeft, imported, cand,
          existing, stmt, txn, seen, pre, present, skipped, lastUpsert,
          assigned, call, raw, result, argv, args, mpc, received>>

storeVars == <<db, seq, appUp, manual, crawls, cpc, rowsLeft, imported, cand,
               existing, stmt, txn, seen, pre, present, skipped, lastUpsert,
               assigned>>

normVars == <<call, raw, result>>

mainVars == <<argv, args, mpc, received>>

----------------------------------------------------------------------------
(* Bounds of the model. *)

\* tokens concatenated into one raw status text
MaxTokens == 2
\* rows one crawl visits
MaxRows == 2
\* crawler runs
MaxCrawls == 1
\* manual add and edit requests that write a record
MaxManual == 1

\* options given on the crawler's command line besides --preset
MaxGiven == 2

----------------------------------------------------------------------------
(* Python str operations. *)

None == <<"None">>

Min(S) == CHOOSE x \in S : \A y \in S : x <= y

Max(S) == CHOOSE x \in S : \A y \in S : x >= y

Lowercase == <<"a","b","c","d","e","f","g","h","i","j","k","l","m","n","o","p","q","r","s","t","u","v","w","x","y","z">>

Uppercase == <<"A","B","C","D","E","F","G","H","I","J","K","L","M","N","O","P","Q","R","S","T","U","V","W","X","Y","Z">>

Whitespace == {" ", "\t", "\n"}

IsUpper(c) == \E i \in 1..Len(Uppercase) : Uppercase[i] = c

IsLower(c) == \E i \in 1..Len(Lowercase) : Lowercase[i] = c

IsCased(c) == IsUpper(c) \/ IsLower(c)

lower_char(c) ==
    IF IsUpper(c) THEN Lowercase[CHOOSE i \in 1..Len(Uppercase) : Uppercase[i] = c] ELSE c

upper_char(c) ==
    IF IsLower(c) THEN Uppercase[CHOOSE i \in 1..Len(Lowercase) : Lowercase[i] = c] ELSE c

\* str.lower()
lower(s) == [i \in 1..Len(s) |-> lower_char(s[i])]

\* str.title(): a cased character is upper-cased when the character before it
\* is not cased (or there is none), lower-cased otherwise
title(s) ==
    [i \in 1..Len(s) |->
        IF i > 1 /\ IsCased(s[i - 1]) THEN lower_char(s[i]) ELSE upper_char(s[i])]

\* str.strip()
strip(s) ==
    LET keep == {i \in 1..Len(s) : s[i] \notin Whitespace}
    IN  IF keep = {} THEN <<>> ELSE SubSeq(s, Min(keep), Max(keep))

\* k in s
Contains(s, k) ==
    \E i \in 1..(Len(s) - Len(k) + 1) : SubSeq(s, i, i + Len(k) - 1) = k

\* x or default, for x a str or None
OrElse(x, default) == IF x = None \/ x = <<>> THEN default ELSE x

----------------------------------------------------------------------------
(* The normalizer. *)

STATUS_KEYWORDS ==
    << [target |-> "rejected",
        keywords |-> << <<"u","n","f","i","l","l","e","d">>, <<"f","i","l","l","e","d">>, <<"c","a","n","c","e","l","l","e","d">>, <<"c","a","n","c","e","l","e","d">>,
                        <<"c","l","o","s","e","d">>, <<"n","o","t"," ","s","e","l","e","c","t","e","d">>, <<"r","e","j","e","c","t","e","d">>,
                        <<"u","n","s","u","c","c","e","s","s","f","u","l">>, <<"d","e","c","l","i","n","e","d">>, <<"d","i","d"," ","n","o","t"," ","p","r","o","c","e","e","d">> >>],
       [target |-> "offer",
        keywords |-> << <<"o","f","f","e","r">>, <<"a","c","c","e","p","t","e","d">>, <<"a","c","c","e","p","t">> >>],
       [target |-> "onsite",
        keywords |-> << <<"o","n","s","i","t","e">>, <<"f","i","n","a","l"," ","r","o","u","n","d">> >>],
       [target |-> "interview",
        keywords |-> << <<"i","n","t","e","r","v","i","e","w">>, <<"p","h","o","n","e"," ","s","c","r","e","e","n">>, <<"s","c","r","e","e","n">>, <<"a","s","s","e","s","s","m","e","n","t">> >>],
       [target |-> "ranked",
        keywords |-> << <<"r","a","n","k","e","d">>, <<"a","l","t","e","r","n","a","t","e">>, <<"s","h","o","r","t","l","i","s","t">>, <<"p","o","o","l">> >>],
       [target |-> "applied",
        keywords |-> << <<"a","p","p","l","i","e","d">>, <<"s","u","b","m","i","t","t","e","d">>, <<"r","e","c","e","i","v","e","d">>, <<"u","n","d","e","r"," ","r","e","v","i","e","w">>,
                        <<"i","n"," ","p","r","o","g","r","e","s","s">> >>] >>

\* a variant whose onsite label does not contain its own keyword
CanonicalLabel_hyphen(target) ==
    CASE target = "rejected"  -> <<"R","e","j","e","c","t","e","d">>
      [] target = "offer"     -> <<"O","f","f","e","r">>
      [] target = "onsite"    -> <<"O","n","-","s","i","t","e">>
      [] target = "interview" -> <<"I","n","t","e","r","v","i","e","w">>
      [] target = "ranked"    -> <<"R","a","n","k","e","d">>
      [] target = "applied"   -> <<"A","p","p","l","i","e","d">>

\* the dict literal indexed by target
CanonicalLabel(target) ==
    CASE target = "rejected"  -> <<"R","e","j","e","c","t","e","d">>
      [] target = "offer"     -> <<"O","f","f","e","r">>
      [] target = "onsite"    -> <<"O","n","s","i","t","e">>
      [] target = "interview" -> <<"I","n","t","e","r","v","i","e","w">>
      [] target = "ranked"    -> <<"R","a","n","k","e","d">>
      [] target = "applied"   -> <<"A","p","p","l","i","e","d">>

\* any(keyword in lowered for keyword in keywords)
AnyKeyword(lowered, keywords) ==
    \E j \in 1..Len(keywords) : Contains(lowered, keywords[j])

RECURSIVE FirstMatch(_, _)
\* the for loop over STATUS_KEYWORDS.items(), from entry i on: the index of the
\* first entry with a keyword in lowered, 0 when the loop falls through
FirstMatch(lowered, i) ==
    IF i > Len(STATUS_KEYWORDS) THEN 0
    ELSE IF AnyKeyword(lowered, STATUS_KEYWORDS[i].keywords) THEN i
    ELSE FirstMatch(lowered, i + 1)

\* a variant that matches against the text as typed
normalize_status_cased(raw_status) ==
    LET text == strip(OrElse(raw_status, <<>>))
        hit  == FirstMatch(text, 1)
    IN  IF hit # 0 THEN CanonicalLabel(STATUS_KEYWORDS[hit].target)
        ELSE IF text # <<>> THEN title(text) ELSE <<"A","p","p","l","i","e","d">>

\* a variant whose fallback returns the text as typed, also when it is empty
normalize_status_asis(raw_status) ==
    LET text    == strip(OrElse(raw_status, <<>>))
        lowered == lower(text)
        hit     == FirstMatch(lowered, 1)
    IN  IF hit # 0 THEN CanonicalLabel(STATUS_KEYWORDS[hit].target) ELSE text

normalize_status(raw_status) ==
    LET text    == strip(OrElse(raw_status, <<>>))
        lowered == lower(text)
        hit     == FirstMatch(lowered, 1)
    IN  IF hit # 0 THEN CanonicalLabel(STATUS_KEYWORDS[hit].target)
        ELSE IF text # <<>> THEN title(text) ELSE <<"A","p","p","l","i","e","d">>

----------------------------------------------------------------------------
(* The applications table. *)

Columns ==
    {"company", "role", "location", "status", "applied_date", "follow_up_date",
     "source", "notes", "url"}

\* date.today().isoformat()
Today == <<"date.today()">>

\* the tuple of the nine column values, in the order of the SQL column list
data_to_tuple(data) == [c \in Columns |-> data[c]]

\* a stored row: the key column id and the nine value columns
Row(id, values) == [c \in Columns \cup {"id"} |-> IF c = "id" THEN id ELSE values[c]]

RowIds(rows) == {r.id : r \in rows}

\* a key column without AUTOINCREMENT: one more than the largest id in the table
NextRowid_max(rows, last) == Max(RowIds(rows) \cup {0}) + 1

\* id INTEGER PRIMARY KEY AUTOINCREMENT: one more than the largest id the table
\* has ever held, which sqlite_sequence remembers
NextRowid(rows, last) == Max(RowIds(rows) \cup {last}) + 1

\* INSERT INTO applications (nine columns) VALUES (?, ..., ?) on a table image
\* [db, seq]
Insert(image, values) ==
    LET id == NextRowid(image.db, image.seq)
    IN  [db |-> image.db \cup {Row(id, values)}, seq |-> id]

\* UPDATE applications SET cols = values WHERE id = ?
Update(rows, id, values, cols) ==
    {IF r.id = id
        THEN [c \in DOMAIN r |-> IF c \in cols THEN values[c] ELSE r[c]]
        ELSE r : r \in rows}

\* DELETE FROM applications WHERE id = ?
Delete(rows, id) == {r \in rows : r.id # id}

\* a variant of the lookup that folds the case of the stored values only:
\* WHERE lower(company) = ? AND lower(role) = ?
SelectExisting_lowered(rows, company, role) ==
    LET hits == {r.id : r \in {x \in rows : /\ lower(x.company) = company
                                            /\ lower(x.role) = role}}
    IN  IF hits = {} THEN 0 ELSE Min(hits)

\* SELECT id FROM applications WHERE company = ? AND role = ?, fetchone(): the
\* table has no index, SQLite scans it in rowid order and the first hit is
\* the smallest id; 0 stands for no row
SelectExisting(rows, company, role) ==
    LET hits == {r.id : r \in {x \in rows : x.company = company /\ x.role = role}}
    IN  IF hits = {} THEN 0 ELSE Min(hits)

sample_rows ==
    << [company |-> <<"D","e","e","p","P","i","x","e","l"," ","A","I">>, role |-> <<"M","L"," ","I","n","t","e","r","n">>,
        location |-> <<"T","o","r","o","n","t","o",","," ","O","N">>, status |-> <<"P","h","o","n","e"," ","S","c","r","e","e","n">>,
        applied_date |-> <<"today.day - 18">>, follow_up_date |-> None,
        source |-> <<"L","i","n","k","e","d","I","n">>,
        notes |-> <<"R","e","a","c","h","e","d"," ","o","u","t"," ","t","o"," ","r","e","c","r","u","i","t","e","r"," ","o","n"," ","L","i","n","k","e","d","I","n","."," ","P","r","e","p"," ","s","y","s","t","e","m"," ","d","e","s","i","g","n",".">>,
        url |-> <<"h","t","t","p","s",":","/","/","e","x","a","m","p","l","e",".","c","o","m","/","d","e","e","p","p","i","x","e","l">>],
       [company |-> <<"V","o","l","t"," ","R","o","b","o","t","i","c","s">>, role |-> <<"F","i","r","m","w","a","r","e"," ","C","o","-","o","p">>,
        location |-> <<"W","a","t","e","r","l","o","o",","," ","O","N">>, status |-> <<"A","p","p","l","i","e","d">>,
        applied_date |-> <<"today.day - 9">>, follow_up_date |-> None,
        source |-> <<"W","a","t","e","r","l","o","o","W","o","r","k","s">>, notes |-> <<>>, url |-> <<>>],
       [company |-> <<"A","u","r","o","r","a"," ","C","l","o","u","d">>, role |-> <<"B","a","c","k","e","n","d"," ","I","n","t","e","r","n">>,
        location |-> <<"R","e","m","o","t","e"," ","(","C","a","n","a","d","a",")">>, status |-> <<"I","n","t","e","r","v","i","e","w">>,
        applied_date |-> <<"today.day - 30">>,
        follow_up_date |-> <<"today.day - 15">>,
        source |-> <<"C","o","m","p","a","n","y"," ","C","a","r","e","e","r","s">>, notes |-> <<"T","a","k","e","-","h","o","m","e"," ","A","P","I"," ","d","e","s","i","g","n"," ","s","e","n","t",".">>,
        url |-> <<"h","t","t","p","s",":","/","/","e","x","a","m","p","l","e",".","c","o","m","/","a","u","r","o","r","a">>],
       [company |-> <<"Q","u","a","r","k"," ","L","a","b","s">>, role |-> <<"P","l","a","t","f","o","r","m"," ","E","n","g","i","n","e","e","r","i","n","g"," ","C","o","-","o","p">>,
        location |-> <<"M","o","n","t","r","e","a","l",","," ","Q","C">>, status |-> <<"O","f","f","e","r">>,
        applied_date |-> <<"today.day - 45">>,
        follow_up_date |-> <<"today.day - 10">>,
        source |-> <<"R","e","f","e","r","r","a","l">>, notes |-> <<"O","f","f","e","r"," ","p","e","n","d","i","n","g"," ","n","e","g","o","t","i","a","t","i","o","n",".">>,
        url |-> <<>>],
       [company |-> <<"N","o","r","t","h","w","i","n","d"," ","E","n","e","r","g","y">>, role |-> <<"D","a","t","a"," ","I","n","t","e","r","n">>,
        location |-> <<"C","a","l","g","a","r","y",","," ","A","B">>, status |-> <<"R","e","j","e","c","t","e","d">>,
        applied_date |-> <<"today.day - 60">>,
        follow_up_date |-> <<"today.day - 25">>,
        source |-> <<"I","n","d","e","e","d">>, notes |-> <<"N","e","e","d"," ","m","o","r","e"," ","S","Q","L"," ","p","r","a","c","t","i","c","e",".">>,
        url |-> <<>>] >>

RECURSIVE InsertMany(_, _, _)
\* conn.executemany(INSERT ..., rows): one INSERT per row, from row i on
InsertMany(image, rows, i) ==
    IF i > Len(rows) THEN image
    ELSE InsertMany(Insert(image, data_to_tuple(rows[i])), rows, i + 1)

seed_sample_data(image) == InsertMany(image, sample_rows, 1)

\* a variant that seeds without looking at the count
ensure_database_always(image) == seed_sample_data(image)

\* init_db(), then the sample rows when SELECT COUNT(*) is 0, then commit
ensure_database(image) ==
    IF Cardinality(image.db) = 0 THEN seed_sample_data(image) ELSE image

----------------------------------------------------------------------------
(* Manual entry. *)

\* form.get(key, default): None stands for a key the request does not carry
form_get(form, key, default) == IF form[key] = None THEN default ELSE form[key]

form_to_application(form) ==
    LET applied   == form_get(form, "applied_date", <<>>)
        follow_up == OrElse(form_get(form, "follow_up_date", <<>>), None)
        status    == normalize_status(form_get(form, "status", <<"A","p","p","l","i","e","d">>))
    IN  [company        |-> strip(form_get(form, "company", <<>>)),
         role           |-> strip(form_get(form, "role", <<>>)),
         location       |-> strip(form_get(form, "location", <<>>)),
         status         |-> status,
         applied_date   |-> IF applied = <<>> THEN Today ELSE applied,
         follow_up_date |-> follow_up,
         source         |-> strip(form_get(form, "source", <<>>)),
         notes          |-> strip(form_get(form, "notes", <<>>)),
         url            |-> strip(form_get(form, "url", <<>>))]

\* the submitted forms the model draws from
Forms ==
    { [company |-> <<" ","A","c","m","e"," ">>, role |-> <<"I","n","t","e","r","n">>, location |-> <<>>,
       status |-> <<" "," ">>, applied_date |-> <<>>, follow_up_date |-> <<>>,
       source |-> <<"R","e","f","e","r","r","a","l">>, notes |-> <<"c","a","l","l"," ","b","a","c","k">>, url |-> <<>>],
      [company |-> <<" "," ">>, role |-> <<"I","n","t","e","r","n">>, location |-> None,
       status |-> None, applied_date |-> <<"2","0","2","6","-","0","1","-","0","5">>,
       follow_up_date |-> <<"2","0","2","6","-","0","2","-","0","1">>,
       source |-> None, notes |-> None, url |-> None] }

\* form_to_application(form) for each form of Forms, computed once
FormData == [form \in Forms |-> data_to_tuple(form_to_application(form))]

----------------------------------------------------------------------------
(* The reconciler. *)

\* normalized = {**data}; normalized["status"] = normalize_status(...)
\* (every dict the crawler builds carries the key "status")
Normalized(data) == [data EXCEPT !.status = normalize_status(data.status)]

\* a variant that writes the status in a statement and a transaction of its own
UpsertStatements_split(found) ==
    IF found
    THEN << [op |-> "update", cols |-> {"status"}],
            [op |-> "commit", cols |-> {}],
            [op |-> "update", cols |-> Columns \ {"status"}],
            [op |-> "commit", cols |-> {}] >>
    ELSE << [op |-> "insert", cols |-> Columns],
            [op |-> "commit", cols |-> {}] >>

\* a variant whose UPDATE leaves the notes column out of its SET list
UpsertStatements_keepnotes(found) ==
    IF found
    THEN << [op |-> "update", cols |-> Columns \ {"notes"}],
            [op |-> "commit", cols |-> {}] >>
    ELSE << [op |-> "insert", cols |-> Columns],
            [op |-> "commit", cols |-> {}] >>

\* a variant that inserts whether or not the SELECT found a row
UpsertStatements_insert(found) ==
    << [op |-> "insert", cols |-> Columns],
       [op |-> "commit", cols |-> {}] >>

\* the statements upsert_application sends after its SELECT: one UPDATE that
\* sets all nine columns when a row was found, one INSERT otherwise, and then
\* conn.commit()
UpsertStatements(found) ==
    IF found
    THEN << [op |-> "update", cols |-> Columns],
            [op |-> "commit", cols |-> {}] >>
    ELSE << [op |-> "insert", cols |-> Columns],
            [op |-> "commit", cols |-> {}] >>

NoTxn == [db |-> {}, seq |-> -1]

\* the table as the writing connection sees it: its own uncommitted image
\* when it has a transaction open
Image == IF txn = NoTxn THEN [db |-> db, seq |-> seq] ELSE txn

\* a variant in which other connections read uncommitted data
ReaderView_dirty == Image.db

\* get_db() opens a connection of its own per request: it reads what is
\* committed
ReaderView == db

----------------------------------------------------------------------------
(* The crawler. *)

\* --target-url and --source-label as crawl_and_sync receives them
target_url == <<"h","t","t","p","s",":","/","/","w","w",".","e","x","a","m","p","l","e","/","a","p","p","s">>

source_label == <<"C","r","a","w","l","e","r">>

\* the scraped table rows the model draws from: per selector the inner text
\* of the matched cell, None when the selector matches nothing
ScrapedRows ==
    { [company |-> <<"D","e","e","p","P","i","x","e","l"," ","A","I">>, role |-> <<" ","M","L"," ","I","n","t","e","r","n">>,
       status |-> <<"O","f","f","e","r"," ","A","c","c","e","p","t","e","d">>, location |-> None],
      [company |-> <<" ","A","c","m","e"," ">>, role |-> <<"I","n","t","e","r","n">>,
       status |-> <<"P","o","s","i","t","i","o","n"," ","U","n","f","i","l","l","e","d","\n">>, location |-> <<"T","o","r","o","n","t","o">>],
      [company |-> <<"A","c","m","e">>, role |-> <<"I","n","t","e","r","n">>,
       status |-> <<"r","a","n","k","e","d">>, location |-> <<" ">>],
      [company |-> <<"A","C","M","E">>, role |-> <<"I","n","t","e","r","n">>,
       status |-> <<"A","p","p","l","i","e","d">>, location |-> None],
      [company |-> <<"A","c","m","e">>, role |-> <<" ","\t">>,
       status |-> <<"A","p","p","l","i","e","d">>, location |-> <<"T","o","r","o","n","t","o">>],
      [company |-> None, role |-> <<"I","n","t","e","r","n">>,
       status |-> <<"A","p","p","l","i","e","d">>, location |-> <<"T","o","r","o","n","t","o">>],
      [company |-> <<"A","c","m","e">>, role |-> <<"I","n","t","e","r","n">>,
       status |-> <<>>, location |-> <<"T","o","r","o","n","t","o">>] }

\* extract_text(element, selector)
extract_text(element, selector) ==
    IF selector = "" THEN <<>>
    ELSE IF element[selector] = None THEN <<>>
    ELSE strip(element[selector])

\* a variant of the presence check that does not look at the status
RowPresent_nostatus(row) ==
    /\ extract_text(row, "company") # <<>>
    /\ extract_text(row, "role") # <<>>

\* not (not (company and role and status_raw))
RowPresent(row) ==
    /\ extract_text(row, "company") # <<>>
    /\ extract_text(row, "role") # <<>>
    /\ extract_text(row, "status") # <<>>

\* the dict crawl_and_sync hands to upsert_application for a row
RowData(row) ==
    [company        |-> extract_text(row, "company"),
     role           |-> extract_text(row, "role"),
     location       |-> extract_text(row, "location"),
     status         |-> normalize_status(extract_text(row, "status")),
     applied_date   |-> Today,
     follow_up_date |-> None,
     source         |-> source_label,
     notes          |-> <<"I","m","p","o","r","t","e","d"," ","v","i","a"," ","c","r","a","w","l","e","r"," ","f","r","o","m"," ">> \o target_url,
     url            |-> target_url]

\* RowData(row) for each row of ScrapedRows, computed once
RowDataOf == [row \in ScrapedRows |-> RowData(row)]

\* whether RowPresent(row), for each row of ScrapedRows, computed once
RowPresentOf == [row \in ScrapedRows |-> RowPresent(row)]

\* Normalized(data) for the data of each row of ScrapedRows, computed once
NormalizedOf == [data \in {RowDataOf[row] : row \in ScrapedRows} |-> Normalized(data)]

NoData == [c \in Columns |-> None]

NotSeen == [stmt |-> 0, rows |-> {}]

NoUpsert == [id |-> 0, created |-> FALSE]

\* the id the call in progress writes to
Target ==
    IF existing # 0 THEN existing
    ELSE IF txn # NoTxn THEN txn.seq ELSE 0

----------------------------------------------------------------------------
(* Initial state: a database file that does not exist yet, no process. *)

StoreInit ==
    /\ db = {}
    /\ seq = 0
    /\ appUp = FALSE
    /\ manual = 0
    /\ crawls = 0
    /\ cpc = "idle"
    /\ rowsLeft = 0
    /\ imported = 0
    /\ cand = NoData
    /\ existing = 0
    /\ stmt = 0
    /\ txn = NoTxn
    /\ seen = NotSeen
    /\ pre = {}
    /\ present = 0
    /\ skipped = 0
    /\ lastUpsert = NoUpsert
    /\ assigned = {}

\* no command line, no namespace
NoArgs == <<>>

\* crawler.py's main has not been started
MainIdle ==
    /\ argv = NoArgs
    /\ args = NoArgs
    /\ mpc = "none"
    /\ received = NoArgs

Init ==
    /\ StoreInit
    /\ call = "none"
    /\ raw = None
    /\ result = None
    /\ MainIdle

crawlVars ==
    <<crawls, cpc, rowsLeft, imported, cand, existing, stmt, txn, seen, pre, present,
      skipped, lastUpsert>>

----------------------------------------------------------------------------
(* The web application.  A handler's INSERT, UPDATE or DELETE and its      *)
(* commit are one step: other connections see nothing before the commit.   *)
(* A handler that writes waits while the crawler's transaction holds the   *)
(* database lock.                                                          *)

\* create_app(): ensure_database(), then the routes are served
create_app ==
    /\ ~appUp
    /\ db = {} => txn = NoTxn
    /\ LET image == ensure_database([db |-> db, seq |-> seq])
       IN  /\ db' = image.db
           /\ seq' = image.seq
           /\ assigned' = assigned \cup (RowIds(image.db) \ RowIds(db))
    /\ appUp' = TRUE
    /\ UNCHANGED <<manual, crawlVars, normVars, mainVars>>

\* POST /applications/new
add_application(form) ==
    /\ appUp
    /\ txn = NoTxn
    /\ manual < MaxManual
    /\ LET image == Insert([db |-> db, seq |-> seq], FormData[form])
       IN  /\ db' = image.db
           /\ seq' = image.seq
           /\ assigned' = assigned \cup {image.seq}
    /\ manual' = manual + 1
    /\ UNCHANGED <<appUp, crawlVars, normVars, mainVars>>

\* POST /applications/<app_id>/edit: the not-found branch changes nothing
edit_application(app_id, form) ==
    /\ appUp
    /\ IF app_id \in RowIds(ReaderView)
       THEN /\ txn = NoTxn
            /\ manual < MaxManual
            /\ db' = Update(db, app_id, FormData[form], Columns)
            /\ manual' = manual + 1
       ELSE UNCHANGED <<db, manual>>
    /\ UNCHANGED <<seq, appUp, assigned, crawlVars, normVars, mainVars>>

\* POST /applications/<app_id>/delete
delete_application(app_id) ==
    /\ appUp
    /\ txn = NoTxn
    /\ db' = Delete(db, app_id)
    /\ UNCHANGED <<seq, appUp, manual, assigned, crawlVars, normVars, mainVars>>

\* GET /applications (and the dashboard and the CSV export): a SELECT on a
\* connection of its own; of its result the model keeps the rows with the id
\* the upsert in progress writes to, and the statement the upsert was at
applications ==
    /\ appUp
    /\ cpc = "upsert"
    /\ seen' = [stmt |-> stmt, rows |-> {r \in ReaderView : r.id = Target}]
    /\ UNCHANGED <<db, seq, appUp, manual, assigned, crawls, cpc, rowsLeft,
                   imported, cand, existing, stmt, txn, pre, present, skipped,
                   lastUpsert, normVars, mainVars>>

----------------------------------------------------------------------------
(* The crawler process: crawl_and_sync. *)

\* ensure_database(), the browser session up to query_selector_all, conn =
\* get_db(), imported = 0
crawl_start(nrows) ==
    /\ cpc = "idle"
    /\ crawls < MaxCrawls
    /\ LET image == ensure_database([db |-> db, seq |-> seq])
       IN  /\ db' = image.db
           /\ seq' = image.seq
           /\ assigned' = assigned \cup (RowIds(image.db) \ RowIds(db))
    /\ crawls' = crawls + 1
    /\ cpc' = "loop"
    /\ rowsLeft' = nrows
    /\ imported' = 0
    /\ present' = 0
    /\ skipped' = 0
    /\ lastUpsert' = NoUpsert
    /\ UNCHANGED <<appUp, manual, cand, existing, stmt, txn, seen, pre, normVars, mainVars>>

\* the cells of row have text that is not all whitespace
HasText(cell) == cell # None /\ \E i \in 1..Len(cell) : cell[i] \notin Whitespace

\* one iteration that ends at `continue`
crawl_skip_row(row) ==
    /\ cpc = "loop"
    /\ rowsLeft > 0
    /\ ~RowPresentOf[row]
    /\ rowsLeft' = rowsLeft - 1
    /\ present' = present +
          (IF HasText(row.company) /\ HasText(row.role) /\ HasText(row.status)
           THEN 1 ELSE 0)
    /\ skipped' = skipped + 1
    /\ UNCHANGED <<db, seq, appUp, manual, assigned, crawls, cpc, imported,
                   cand, existing, stmt, txn, seen, pre, lastUpsert, normVars, mainVars>>

\* one iteration that calls upsert_application, up to and including its SELECT
crawl_upsert_row(row) ==
    /\ cpc = "loop"
    /\ rowsLeft > 0
    /\ RowPresentOf[row]
    /\ cand' = RowDataOf[row]
    /\ existing' = SelectExisting(ReaderView, NormalizedOf[RowDataOf[row]].company,
                                  NormalizedOf[RowDataOf[row]].role)
    /\ stmt' = 1
    /\ cpc' = "upsert"
    /\ seen' = NotSeen
    /\ pre' = {}
    /\ present' = present +
          (IF HasText(row.company) /\ HasText(row.role) /\ HasText(row.status)
           THEN 1 ELSE 0)
    /\ UNCHANGED <<db, seq, appUp, manual, assigned, crawls, rowsLeft,
                   imported, txn, skipped, lastUpsert, normVars, mainVars>>

Statements == UpsertStatements(existing # 0)

\* conn.execute(UPDATE ...): opens the connection's transaction when none is open
upsert_update ==
    /\ cpc = "upsert"
    /\ stmt <= Len(Statements)
    /\ Statements[stmt].op = "update"
    /\ txn' = [db  |-> Update(Image.db, existing, data_to_tuple(NormalizedOf[cand]),
                              Statements[stmt].cols),
               seq |-> Image.seq]
    /\ pre' = IF stmt = 1 THEN {r \in db : r.id = existing} ELSE pre
    /\ stmt' = stmt + 1
    /\ UNCHANGED <<db, seq, appUp, manual, assigned, crawls, cpc, rowsLeft,
                   imported, cand, existing, seen, present, skipped, lastUpsert,
                   normVars, mainVars>>

\* conn.execute(INSERT ...)
upsert_insert ==
    /\ cpc = "upsert"
    /\ stmt <= Len(Statements)
    /\ Statements[stmt].op = "insert"
    /\ txn' = Insert(Image, data_to_tuple(NormalizedOf[cand]))
    /\ pre' = IF stmt = 1 THEN {} ELSE pre
    /\ stmt' = stmt + 1
    /\ UNCHANGED <<db, seq, appUp, manual, assigned, crawls, cpc, rowsLeft,
                   imported, cand, existing, seen, present, skipped, lastUpsert,
                   normVars, mainVars>>

\* conn.commit(); after the last statement upsert_application returns and the
\* loop counts the row
upsert_commit ==
    /\ cpc = "upsert"
    /\ stmt <= Len(Statements)
    /\ Statements[stmt].op = "commit"
    /\ db' = Image.db
    /\ seq' = Image.seq
    /\ assigned' = assigned \cup (RowIds(Image.db) \ RowIds(db))
    /\ txn' = NoTxn
    /\ IF stmt = Len(Statements)
       THEN /\ cpc' = "loop"
            /\ imported' = imported + 1
            /\ rowsLeft' = rowsLeft - 1
            /\ cand' = NoData
            /\ existing' = 0
            /\ stmt' = 0
            /\ seen' = NotSeen
            /\ pre' = {}
            /\ lastUpsert' = [id |-> Target, created |-> existing = 0]
       ELSE /\ stmt' = stmt + 1
            /\ UNCHANGED <<cpc, imported, rowsLeft, cand, existing, seen, pre,
                           lastUpsert>>
    /\ UNCHANGED <<appUp, manual, crawls, present, skipped, normVars, mainVars>>

\* the loop is over: browser.close(), return imported
crawl_return ==
    /\ cpc = "loop"
    /\ rowsLeft = 0
    /\ cpc' = "idle"
    /\ UNCHANGED <<db, seq, appUp, manual, assigned, crawls, rowsLeft, imported,
                   cand, existing, stmt, txn, seen, pre, present, skipped,
                   lastUpsert, normVars, mainVars>>

\* the ids a request names: those of the stored records, and 0 for any id
\* that no record has
AppIds == RowIds(db) \cup {0}

Next ==
    \/ create_app
    \/ \E form \in Forms : add_application(form)
    \/ \E app_id \in AppIds, form \in Forms : edit_application(app_id, form)
    \/ \E app_id \in AppIds : delete_application(app_id)
    \/ applications
    \/ \E nrows \in 0..MaxRows : crawl_start(nrows)
    \/ \E row \in ScrapedRows : crawl_skip_row(row)
    \/ \E row \in ScrapedRows : crawl_upsert_row(row)
    \/ upsert_update
    \/ upsert_insert
    \/ upsert_commit
    \/ crawl_return

Spec == Init /\ [][Next]_vars

----------------------------------------------------------------------------
(* The normalizer applied to bounded inputs: normalize_status on its own,  *)
(* the status a manual submission stores, and the status a crawled row     *)
(* stores.                                                                 *)

Tokens ==
    { <<" ">>, <<"P","o","s","i","t","i","o","n"," ">>, <<"U","n","f","i","l","l","e","d">>, <<"F","I","L","L","E","D">>, <<"n","o","t"," ","S","e","l","e","c","t","e","d">>, <<"O","f","f","e","r">>,
      <<"a","c","c","e","p","t">>, <<"F","i","n","a","l"," ","R","o","u","n","d">>, <<"s","c","r","e","e","n","i","n","g">>, <<"P","h","o","n","e"," ","S","c","r","e","e","n">>, <<"S","h","o","r","t","l","i","s","t">>,
      <<"p","o","o","l">>, <<"A","p","p","l","i","e","d">>, <<"U","n","d","e","r"," ","R","e","v","i","e","w">>, <<"h","r"," ","c","h","a","t">>, <<"2","n","d","-","l","o","o","k","\t">> }

RECURSIVE Join(_)
Join(ts) == IF ts = <<>> THEN <<>> ELSE Head(ts) \o Join(Tail(ts))

CanonicalLabels ==
    { <<"A","p","p","l","i","e","d">>, <<"I","n","t","e","r","v","i","e","w">>, <<"O","n","s","i","t","e">>, <<"O","f","f","e","r">>, <<"R","a","n","k","e","d">>, <<"R","e","j","e","c","t","e","d">> }

Examples ==
    { <<"P","o","s","i","t","i","o","n"," ","U","n","f","i","l","l","e","d">>, <<"I","n","t","e","r","v","i","e","w"," ","S","c","h","e","d","u","l","e","d"," ","-"," ","P","h","o","n","e"," ","S","c","r","e","e","n">>,
      <<"O","f","f","e","r"," ","A","c","c","e","p","t","e","d">>, <<"S","h","o","r","t","l","i","s","t","e","d"," ","/"," ","A","l","t","e","r","n","a","t","e"," ","P","o","o","l">>, <<"S","o","m","e"," ","C","u","s","t","o","m"," ","L","a","b","e","l">>,
      <<"R","E","J","E","C","T","E","D"," ","a","f","t","e","r"," ","o","n","s","i","t","e">>, <<" "," "," ">> }

\* the raw status texts the model draws from; None is an absent value
RawInputs ==
    {Join(ts) : ts \in UNION {[1..n -> Tokens] : n \in 0..MaxTokens}}
        \cup CanonicalLabels \cup Examples \cup {None}

\* a form that carries raw as its status
FormWithStatus(status) ==
    [company |-> <<"A","c","m","e">>, role |-> <<"I","n","t","e","r","n">>, location |-> <<>>,
     status |-> status, applied_date |-> <<>>, follow_up_date |-> <<>>,
     source |-> <<>>, notes |-> <<>>, url |-> <<>>]

\* a scraped row whose status cell holds raw
RowWithStatus(status) ==
    [company |-> <<"A","c","m","e">>, role |-> <<"I","n","t","e","r","n">>, status |-> status, location |-> None]

\* the status column of the one row of a table image
StoredStatus(image) == (CHOOSE r \in image.db : TRUE).status

InitNorm ==
    /\ StoreInit
    /\ call = "none"
    /\ raw \in RawInputs
    /\ result = None
    /\ MainIdle

\* normalize_status(raw)
call_normalize ==
    /\ call = "none"
    /\ call' = "normalize"
    /\ result' = normalize_status(raw)
    /\ UNCHANGED <<raw, storeVars, mainVars>>

\* add_application with a form whose status is raw, on an empty table: the
\* status of the row it inserts
call_add ==
    /\ call = "none"
    /\ call' = "add"
    /\ result' = StoredStatus(Insert([db |-> {}, seq |-> 0],
                     data_to_tuple(form_to_application(FormWithStatus(raw)))))
    /\ UNCHANGED <<raw, storeVars, mainVars>>

\* one crawler iteration for a row whose status cell is raw, on an empty
\* table: the status of the row upsert_application inserts
call_crawl ==
    /\ call = "none"
    /\ RowPresent(RowWithStatus(raw))
    /\ call' = "crawl"
    /\ result' = StoredStatus(Insert([db |-> {}, seq |-> 0],
                     data_to_tuple(Normalized(RowData(RowWithStatus(raw))))))
    /\ UNCHANGED <<raw, storeVars, mainVars>>

NextNorm ==
    \/ call_normalize
    \/ call_add
    \/ call_crawl

SpecNorm == InitNorm /\ [][NextNorm]_vars

----------------------------------------------------------------------------
(* crawler.py's main on bounded command lines: parse_args, the preset      *)
(* block, and the keyword arguments of the call of crawl_and_sync.  The     *)
(* options main passes through untouched (--username, --password,          *)
(* --login-wait-ms, --headful) are left out.                                *)

\* an option that is not on the command line
NotGiven == <<"not given">>

\* the options of the parser that take part in the preset block
Options ==
    {"login_url", "target_url", "row_selector", "company_selector",
     "role_selector", "status_selector", "location_selector", "nav_link_text",
     "source_label"}

\* parser.add_argument(..., default=...): what parse_args stores for an
\* option that is not given
Defaults ==
    [preset            |-> None,
     login_url         |-> None,
     target_url        |-> None,
     row_selector      |-> <<"t","a","b","l","e"," ","t","r">>,
     company_selector  |-> <<"t","d",":","n","t","h","-","c","h","i","l","d","(","1",")">>,
     role_selector     |-> <<"t","d",":","n","t","h","-","c","h","i","l","d","(","2",")">>,
     status_selector   |-> <<"t","d",":","n","t","h","-","c","h","i","l","d","(","3",")">>,
     location_selector |-> None,
     nav_link_text     |-> None,
     source_label      |-> <<"C","r","a","w","l","e","r">>]

\* the right-hand operands of the `or`s in the block
\* if args.preset == "waterlooworks"
waterlooworks ==
    [login_url         |-> <<"h","t","t","p","s",":","/","/","w","a","t","e","r","l","o","o","w","o","r","k","s",".","u","w","a","t","e","r","l","o","o",".","c","a","/","m","y","A","c","c","o","u","n","t","/","d","a","s","h","b","o","a","r","d",".","h","t","m">>,
     target_url        |-> <<"h","t","t","p","s",":","/","/","w","a","t","e","r","l","o","o","w","o","r","k","s",".","u","w","a","t","e","r","l","o","o",".","c","a","/","m","y","A","c","c","o","u","n","t","/","d","a","s","h","b","o","a","r","d",".","h","t","m">>,
     row_selector      |-> <<"t","a","b","l","e"," ","t","b","o","d","y"," ","t","r">>,
     company_selector  |-> <<"t","d",":","n","t","h","-","c","h","i","l","d","(","2",")">>,
     role_selector     |-> <<"t","d",":","n","t","h","-","c","h","i","l","d","(","3",")">>,
     status_selector   |-> <<"t","d",":","n","t","h","-","c","h","i","l","d","(","4",")">>,
     location_selector |-> <<"t","d",":","n","t","h","-","c","h","i","l","d","(","5",")">>,
     nav_link_text     |-> <<"P","o","s","t","i","n","g","s"," ","/"," ","A","p","p","l","i","c","a","t","i","o","n","s">>,
     source_label      |-> <<"W","a","t","e","r","l","o","o","W","o","r","k","s">>]

\* the values the model gives an option explicitly: the empty string and two
\* texts that are no default and no preset value
GivenValues == {<<>>, <<"d","i","v",".","j","o","b">>, <<"M","y"," ","P","o","r","t","a","l">>}

\* the command lines the model draws from: --preset absent or waterlooworks
\* (the parser's only choice), and at most MaxGiven other options
CommandLines ==
    {a \in [Options \cup {"preset"} -> GivenValues \cup {NotGiven, <<"w","a","t","e","r","l","o","o","w","o","r","k","s">>}] :
        /\ a.preset \in {NotGiven, <<"w","a","t","e","r","l","o","o","w","o","r","k","s">>}
        /\ \A o \in Options : a[o] # <<"w","a","t","e","r","l","o","o","w","o","r","k","s">>
        /\ Cardinality({o \in Options : a[o] # NotGiven}) <= MaxGiven}

InitMain ==
    /\ StoreInit
    /\ call = "none"
    /\ raw = None
    /\ result = None
    /\ argv \in CommandLines
    /\ args = NoArgs
    /\ mpc = "start"
    /\ received = NoArgs

\* args = parser.parse_args()
main_parse_args ==
    /\ mpc = "start"
    /\ args' = [o \in DOMAIN argv |-> IF argv[o] = NotGiven THEN Defaults[o] ELSE argv[o]]
    /\ mpc' = "parsed"
    /\ UNCHANGED <<argv, received, storeVars, normVars>>

\* if args.preset == "waterlooworks": nine assignments args.x = args.x or ...
main_preset ==
    /\ mpc = "parsed"
    /\ args' = IF args.preset = <<"w","a","t","e","r","l","o","o","w","o","r","k","s">>
               THEN [o \in DOMAIN args |->
                        IF o \in Options
                        THEN OrElse(args[o], waterlooworks[o])
                        ELSE args[o]]
               ELSE args
    /\ mpc' = "resolved"
    /\ UNCHANGED <<argv, received, storeVars, normVars>>

\* asyncio.run(crawl_and_sync(login_url=args.login_url or args.target_url, ...))
main_crawl_and_sync ==
    /\ mpc = "resolved"
    /\ received' = [o \in Options |->
                       IF o = "login_url" THEN OrElse(args.login_url, args.target_url)
                       ELSE args[o]]
    /\ mpc' = "called"
    /\ UNCHANGED <<argv, args, storeVars, normVars>>

NextMain ==
    \/ main_parse_args
    \/ main_preset
    \/ main_crawl_and_sync

SpecMain == InitMain /\ [][NextMain]_vars

----------------------------------------------------------------------------
(* Claims about the normalizer, checked under SpecNorm. *)

\* the keyword families in their priority order, as the specification lists them
Families ==
    << [label |-> <<"R","e","j","e","c","t","e","d">>,
        keywords |-> { <<"u","n","f","i","l","l","e","d">>, <<"f","i","l","l","e","d">>, <<"c","a","n","c","e","l","l","e","d">>, <<"c","a","n","c","e","l","e","d">>,
                       <<"c","l","o","s","e","d">>, <<"n","o","t"," ","s","e","l","e","c","t","e","d">>, <<"r","e","j","e","c","t","e","d">>, <<"u","n","s","u","c","c","e","s","s","f","u","l">>,
                       <<"d","e","c","l","i","n","e","d">>, <<"d","i","d"," ","n","o","t"," ","p","r","o","c","e","e","d">> }],
       [label |-> <<"O","f","f","e","r">>, keywords |-> { <<"o","f","f","e","r">>, <<"a","c","c","e","p","t","e","d">>, <<"a","c","c","e","p","t">> }],
       [label |-> <<"O","n","s","i","t","e">>, keywords |-> { <<"o","n","s","i","t","e">>, <<"f","i","n","a","l"," ","r","o","u","n","d">> }],
       [label |-> <<"I","n","t","e","r","v","i","e","w">>,
        keywords |-> { <<"i","n","t","e","r","v","i","e","w">>, <<"p","h","o","n","e"," ","s","c","r","e","e","n">>, <<"s","c","r","e","e","n">>, <<"a","s","s","e","s","s","m","e","n","t">> }],
       [label |-> <<"R","a","n","k","e","d">>,
        keywords |-> { <<"r","a","n","k","e","d">>, <<"a","l","t","e","r","n","a","t","e">>, <<"s","h","o","r","t","l","i","s","t">>, <<"p","o","o","l">> }],
       [label |-> <<"A","p","p","l","i","e","d">>,
        keywords |-> { <<"a","p","p","l","i","e","d">>, <<"s","u","b","m","i","t","t","e","d">>, <<"r","e","c","e","i","v","e","d">>, <<"u","n","d","e","r"," ","r","e","v","i","e","w">>,
                       <<"i","n"," ","p","r","o","g","r","e","s","s">> }] >>

\* the input, trimmed; an absent input counts as empty
Trimmed(s) == IF s = None THEN <<>> ELSE strip(s)

\* the families with a keyword occurring in the trimmed, lower-cased input
Matching(s) ==
    {i \in 1..Len(Families) :
        \E k \in Families[i].keywords : Contains(lower(Trimmed(s)), k)}

\* t is s in title case: the same characters up to case, a letter in upper
\* case exactly when no letter stands before it
IsTitleOf(t, s) ==
    /\ Len(t) = Len(s)
    /\ \A i \in 1..Len(s) :
          /\ lower_char(t[i]) = lower_char(s[i])
          /\ IsCased(s[i]) =>
                (IsUpper(t[i]) <=> (i = 1 \/ ~IsCased(s[i - 1])))

\* C1: normalize_status returns the label of the first family, in the order
\* rejected > offer > onsite > interview > ranked > applied, that has a keyword
\* occurring in the trimmed, lower-cased input; the four example labels map as
\* stated.
C1_FirstFamilyWins ==
    call = "normalize" =>
        /\ Matching(raw) # {} => result = Families[Min(Matching(raw))].label
        /\ 1 \in Matching(raw) => result = <<"R","e","j","e","c","t","e","d">>
        /\ raw = <<"P","o","s","i","t","i","o","n"," ","U","n","f","i","l","l","e","d">> => result = <<"R","e","j","e","c","t","e","d">>
        /\ raw = <<"I","n","t","e","r","v","i","e","w"," ","S","c","h","e","d","u","l","e","d"," ","-"," ","P","h","o","n","e"," ","S","c","r","e","e","n">> => result = <<"I","n","t","e","r","v","i","e","w">>
        /\ raw = <<"O","f","f","e","r"," ","A","c","c","e","p","t","e","d">> => result = <<"O","f","f","e","r">>
        /\ raw = <<"S","h","o","r","t","l","i","s","t","e","d"," ","/"," ","A","l","t","e","r","n","a","t","e"," ","P","o","o","l">> => result = <<"R","a","n","k","e","d">>

\* C1 witness: an input not in lower case, with a rejected keyword and a
\* keyword of a later family, was normalized to Rejected
C1_Witness ==
    /\ call = "normalize"
    /\ raw # None
    /\ raw # lower(raw)
    /\ 1 \in Matching(raw)
    /\ Cardinality(Matching(raw)) >= 2
    /\ result = <<"R","e","j","e","c","t","e","d">>

\* C9: when no family matches, normalize_status returns Applied for an empty,
\* whitespace-only or absent input and the trimmed input in title case
\* otherwise; a manual submission with a blank status stores Applied.
C9_Fallback ==
    /\ (call = "normalize" /\ Matching(raw) = {}) =>
          IF Trimmed(raw) = <<>> THEN result = <<"A","p","p","l","i","e","d">>
          ELSE IsTitleOf(result, Trimmed(raw))
    /\ (call = "normalize" /\ raw = <<"S","o","m","e"," ","C","u","s","t","o","m"," ","L","a","b","e","l">>) => result = raw
    /\ (call = "add" /\ Trimmed(raw) = <<>>) => result = <<"A","p","p","l","i","e","d">>

\* C9 witness: a manual submission whose status was whitespace only stored
\* Applied
C9_Witness ==
    /\ call = "add"
    /\ raw # None
    /\ raw # <<>>
    /\ Trimmed(raw) = <<>>
    /\ result = <<"A","p","p","l","i","e","d">>

\* C10: every canonical label normalizes to itself, and so does the result; a
\* crawled status that is a canonical label is stored unchanged after the two
\* normalizations.
C10_CanonicalFixpoint ==
    raw \in CanonicalLabels =>
        /\ call = "normalize" => (result = raw /\ normalize_status(result) = result)
        /\ call = "crawl" => result = raw

\* C10 witness: the crawler stored the canonical label Onsite as it came
C10_Witness ==
    /\ call = "crawl"
    /\ raw = <<"O","n","s","i","t","e">>
    /\ result = <<"O","n","s","i","t","e">>

----------------------------------------------------------------------------
(* Claims about the store, the reconciler and the crawler, checked under   *)
(* Spec.                                                                   *)

\* the step in which upsert_application runs its SELECT
SelectStep == cpc = "loop" /\ cpc' = "upsert"

\* the step in which upsert_application commits its last statement and returns
ReturnStep == cpc = "upsert" /\ cpc' = "loop"

\* the rows of a table that carry the key of data
SameKey(rows, data) == {r \in rows : r.company = data.company /\ r.role = data.role}

\* C2: an upsert whose (company, role) no stored record has adds exactly one
\* record with a new id; an upsert whose (company, role) a record has adds
\* none and leaves the count as it is; and when the previous upsert created a
\* record that is still the only one with the key, the next upsert with that
\* key selects that very id.
C2_UpsertRoundTrip ==
    [][ /\ SelectStep =>
              /\ existing' # 0 <=> SameKey(db, cand') # {}
              /\ existing' # 0 => \E r \in SameKey(db, cand') : r.id = existing'
              /\ (lastUpsert.created /\ SameKey(db, cand') # {}
                    /\ RowIds(SameKey(db, cand')) = {lastUpsert.id})
                    => existing' = lastUpsert.id
        /\ ReturnStep =>
              IF existing = 0
              THEN /\ Cardinality(db') = Cardinality(db) + 1
                   /\ db \subseteq db'
                   /\ \A r \in db' \ db :
                         /\ r.id \notin RowIds(db)
                         /\ r.company = cand.company
                         /\ r.role = cand.role
              ELSE /\ Cardinality(db') = Cardinality(db)
                   /\ RowIds(db') = RowIds(db)
      ]_vars

\* C2 witness: the second of two upserts with the same key has selected the
\* record the first one created and has run its UPDATE, and the table it
\* is about to commit has as many rows as before
C2_Witness ==
    /\ cpc = "upsert"
    /\ stmt = 2
    /\ txn # NoTxn
    /\ lastUpsert.created
    /\ existing = lastUpsert.id
    /\ Cardinality(txn.db) = Cardinality(db)
    /\ \E r \in txn.db : r.id = existing /\ r \notin db

\* C3: when upsert_application returns after it found a record with the
\* candidate's key, that record's location, status, applied_date,
\* follow_up_date, source, notes and url are the candidate's (the status
\* normalized): nothing of the old values is kept.
C3_FullOverwrite ==
    [][ (ReturnStep /\ existing # 0) =>
            \A r \in db' : r.id = existing =>
                /\ r.company = cand.company
                /\ r.role = cand.role
                /\ r.location = cand.location
                /\ r.status = normalize_status(cand.status)
                /\ r.applied_date = cand.applied_date
                /\ r.follow_up_date = cand.follow_up_date
                /\ r.source = cand.source
                /\ r.notes = cand.notes
                /\ r.url = cand.url
      ]_vars

\* C3 witness: the first sample record, seeded with a location, notes and a
\* url, has been matched by a crawled row without a location: its location
\* is now empty and its notes, source and url are the crawler's
C3_Witness ==
    /\ cpc = "loop"
    /\ imported >= 1
    /\ \E r \in db :
          /\ r.id = 1
          /\ r.company = sample_rows[1].company
          /\ r.role = sample_rows[1].role
          /\ r.location = <<>>
          /\ r.location # sample_rows[1].location
          /\ r.notes # sample_rows[1].notes
          /\ r.source = source_label
          /\ r.url = target_url

\* the rows with the target id once every statement of the call has been applied
FullyApplied(rows) == {Row(r.id, data_to_tuple(NormalizedOf[cand])) : r \in rows}

\* C4: what a concurrent reader gets for the record an upsert is writing,
\* from the upsert's first write statement until its last commit, is the
\* complete old record or the complete new one.
C4_NoHalfAppliedRead ==
    (cpc = "upsert" /\ seen.stmt > 1 /\ seen.stmt <= Len(Statements)) =>
        (seen.rows = pre \/ seen.rows = FullyApplied(pre))

\* C4 witness: a reader ran while the upsert's UPDATE was executed and not
\* yet committed, and got the complete old record, which differs from the new
C4_Witness ==
    /\ cpc = "upsert"
    /\ existing # 0
    /\ txn # NoTxn
    /\ seen.stmt = 2
    /\ pre # {}
    /\ seen.rows = pre
    /\ pre # FullyApplied(pre)

\* C5: no manual add or edit persists a record whose company or role is
\* empty (the other ways a record is written, the sample rows and the crawler,
\* never write an empty company or role).
C5_RequiredFieldsRejected ==
    \A r \in db : r.company # <<>> /\ r.role # <<>>

\* the steps that write a record from a form, and the step that deletes one
ManualAdd == \E form \in Forms : add_application(form)

ManualDelete == \E app_id \in AppIds : delete_application(app_id)

ManualEdit == \E app_id \in AppIds, form \in Forms : edit_application(app_id, form)

\* the steps that run ensure_database
Startup == create_app \/ \E nrows \in 0..MaxRows : crawl_start(nrows)

\* C6 as claimed: a record appears only in a manual add or a crawler upsert,
\* and disappears only in a manual delete.
C6_OnlyManualOrCrawler ==
    [][ /\ ~(RowIds(db') \subseteq RowIds(db)) => (ManualAdd \/ upsert_commit)
        /\ ~(RowIds(db) \subseteq RowIds(db')) => ManualDelete
      ]_vars

\* C6 amended: a record appears only in a manual add, a crawler upsert, or
\* when create_app or the start of a crawl finds the table empty and seeds
\* the sample rows; it disappears only in a manual delete.
C6_Lifecycle ==
    [][ /\ ~(RowIds(db') \subseteq RowIds(db)) =>
              \/ ManualAdd
              \/ upsert_commit
              \/ (Startup /\ db = {}
                    /\ Cardinality(db') = Len(sample_rows))
        /\ ~(RowIds(db) \subseteq RowIds(db')) => ManualDelete
      ]_vars

\* C6 witness: the sample rows are stored under ids above the first five:
\* they were seeded a second time, by the start of a crawl, after every
\* record had been deleted
C6_Witness ==
    /\ crawls = 1
    /\ \E r \in db :
          /\ r.id > Len(sample_rows)
          /\ r.company = sample_rows[1].company
          /\ r.notes = sample_rows[1].notes

\* C7: a record that appears gets an id no INSERT has produced before, and
\* a manual edit or a matching upsert leaves the set of ids as it is.
C7_IdentityStable ==
    [][ /\ \A r \in db' : r.id \notin RowIds(db) => r.id \notin assigned
        /\ RowIds(db') # RowIds(db) => ~(ManualEdit \/ (ReturnStep /\ existing # 0))
      ]_vars

\* C7 witness: the sample rows were seeded under ids 1 to 5, all were
\* deleted, and the rows seeded afterwards carry the ids 6 to 10
C7_Witness ==
    /\ assigned = 1..(2 * Len(sample_rows))
    /\ RowIds(db) = (Len(sample_rows) + 1)..(2 * Len(sample_rows))

\* a row visited by the loop whose required cells did not all have text
VisitOfIncompleteRow ==
    /\ cpc = "loop"
    /\ cpc' = "upsert" \/ rowsLeft' = rowsLeft - 1
    /\ present' = present

\* C8: a row whose company, role or status cell is empty ends its iteration
\* without a call of upsert_application and without a change of the store,
\* and the count crawl_and_sync returns is the number of rows in which all
\* three had text.
C8_PresenceCheck ==
    [][ /\ VisitOfIncompleteRow =>
              /\ cpc' = "loop"
              /\ skipped' = skipped + 1
              /\ UNCHANGED <<db, seq, txn, imported>>
        /\ crawl_return => imported = present
      ]_vars

\* C8 witness: a crawl of two rows has returned 1: one row was skipped
C8_Witness ==
    /\ cpc = "idle"
    /\ crawls = 1
    /\ rowsLeft = 0
    /\ skipped = 1
    /\ present = 1
    /\ imported = 1

----------------------------------------------------------------------------
(* Claims about the reconciler's key, checked under Spec. *)

\* no two records of rows have the same (company, role), compared as SQLite
\* compares TEXT: character by character
KeyUnique(rows) ==
    \A r \in rows, s \in rows : (r.company = s.company /\ r.role = s.role) => r = s

\* a statement of the call in progress writes to the crawler's connection
WriteStep == cpc = "upsert" /\ txn' # txn /\ txn' # NoTxn

\* a commit of the call in progress
CommitStep == cpc = "upsert" /\ txn # NoTxn /\ txn' = NoTxn

\* what the SELECT of the call in progress returned is what it would return
\* now, or the row it returned has been deleted since: no record was added
\* or edited between the SELECT and the statement that follows it
LookupStands ==
    \/ existing = SelectExisting(Image.db, NormalizedOf[cand].company,
                                 NormalizedOf[cand].role)
    \/ existing # 0 /\ existing \notin RowIds(Image.db)

\* C11: reconciliation keeps the key unique.  While no record has been added
\* or edited by hand, no two records of the committed table or of the
\* crawler's uncommitted image share (company, role) under exact,
\* case-sensitive equality; a statement of upsert_application whose lookup
\* still stands takes a table without duplicate keys to a table without
\* duplicate keys, and when it inserts, no record of the table had the
\* candidate's key; a commit publishes a table without duplicate keys when
\* the uncommitted image had none.
C11_DedupInvariant ==
    [][ /\ manual' = 0 => KeyUnique(db') /\ KeyUnique(Image.db)'
        /\ (WriteStep /\ LookupStands /\ KeyUnique(Image.db)) =>
               /\ KeyUnique(txn'.db)
               /\ RowIds(txn'.db) # RowIds(Image.db) =>
                      SameKey(Image.db, NormalizedOf[cand]) = {}
        /\ (CommitStep /\ KeyUnique(txn.db)) => KeyUnique(db')
      ]_vars

\* the crawler has inserted a record whose key differs from a stored
\* record's only in the case of its letters, next to that record, and no
\* record was ever added or edited by hand
C11_Witness ==
    /\ manual = 0
    /\ lastUpsert.created
    /\ \E r \in db, s \in db :
          /\ r.id = lastUpsert.id
          /\ s.id # r.id
          /\ s.source = source_label
          /\ r.company # s.company
          /\ lower(r.company) = lower(s.company)
          /\ r.role = s.role

----------------------------------------------------------------------------
(* Claims about the crawler's command line, checked under SpecMain. *)

\* the options the specification's preset bundle names
BundleOptions ==
    {"row_selector", "company_selector", "role_selector", "status_selector",
     "location_selector", "nav_link_text", "source_label"}

\* the bundle of the preset waterlooworks as the specification states it
PresetBundle ==
    [row_selector      |-> <<"t","a","b","l","e"," ","t","b","o","d","y"," ","t","r">>,
     company_selector  |-> <<"t","d",":","n","t","h","-","c","h","i","l","d","(","2",")">>,
     role_selector     |-> <<"t","d",":","n","t","h","-","c","h","i","l","d","(","3",")">>,
     status_selector   |-> <<"t","d",":","n","t","h","-","c","h","i","l","d","(","4",")">>,
     location_selector |-> <<"t","d",":","n","t","h","-","c","h","i","l","d","(","5",")">>,
     nav_link_text     |-> <<"P","o","s","t","i","n","g","s"," ","/"," ","A","p","p","l","i","c","a","t","i","o","n","s">>,
     source_label      |-> <<"W","a","t","e","r","l","o","o","W","o","r","k","s">>]

\* C12: preset resolution.  When main was started with --preset
\* waterlooworks and none of the selector, nav-link-text and source-label
\* options, crawl_and_sync receives the preset's bundle; an option given on
\* the command line is received as given.
C12_PresetResolution ==
    (mpc = "called" /\ argv.preset = <<"w","a","t","e","r","l","o","o","w","o","r","k","s">>) =>
        /\ (\A o \in BundleOptions : argv[o] = NotGiven) =>
               \A o \in BundleOptions : received[o] = PresetBundle[o]
        /\ \A o \in BundleOptions : argv[o] # NotGiven => received[o] = argv[o]

====
